---- MODULE Spec2Model ----
(***************************************************************************)
(* A model of e3.aws.cfn: CloudFormation resources, the stack container    *)
(* and its export, and the EC2 resources built on them.                    *)
(*                                                                         *)
(* Representation.                                                         *)
(*   - A Python str used as an identifier is a sequence of one-character   *)
(*     strings, so that isalnum() and the stack-name pattern are computed  *)
(*     character by character.  An attribute name is one atomic token.     *)
(*   - None is the empty sequence <<>>, a present value v is <<v>>.        *)
(*   - A dict is a sequence of <<key, value>> pairs in insertion order     *)
(*     (Python dicts keep insertion order; assigning to an existing key    *)
(*     keeps its position).                                                *)
(*   - Objects live in heap (resources) and nis (network interfaces) and   *)
(*     are referred to by their index, which is their identity.            *)
(***************************************************************************)
EXTENDS Integers, Sequences, FiniteSets, TLC

VARIABLES
    heap,     \* resource objects constructed so far, by identity
    nis,      \* NetworkInterface objects constructed so far, by identity
    stacks,   \* the caller's stack variables: <<>> or <<stack object>>
    call,     \* the last call: operation, arguments and how it ended
    doc,      \* what the last call returned as an export dict (<<>> if none)
    body      \* what the last call returned as text or intrinsic (<<>> if none)

vars == <<heap, nis, stacks, call, doc, body>>

-----------------------------------------------------------------------------
(* Bounds of the model *)

MaxHeap == 3
MaxNis == 2
MaxIndex == 2

-----------------------------------------------------------------------------
(* Option values and dicts *)

None == <<>>
Some(v) == <<v>>
IsNone(o) == o = <<>>
Val(o) == o[1]

DictKeys(d) == {d[i][1] : i \in DOMAIN d}
DictKeySeq(d) == [i \in DOMAIN d |-> d[i][1]]
DictValues(d) == [i \in DOMAIN d |-> d[i][2]]
HasKey(d, k) == \E i \in DOMAIN d : d[i][1] = k
DictGet(d, k) == d[CHOOSE i \in DOMAIN d : d[i][1] = k][2]
DictPut(d, k, v) ==
    IF HasKey(d, k)
    THEN [i \in DOMAIN d |-> IF d[i][1] = k THEN <<k, v>> ELSE d[i]]
    ELSE Append(d, <<k, v>>)

SetMax(S) == CHOOSE m \in S : \A x \in S : x <= m

-----------------------------------------------------------------------------
(* Characters and names *)

AsciiLetters == {"a", "e", "n", "r", "t", "R", "Z"}
AsciiDigits == {"0", "1", "2", "3", "4", "5", "6", "7", "8", "9"}
OtherLetters == {"é"}
Hyphen == "-"
Newline == "\n"

\* str.isalnum(): non-empty and every character a letter or a digit
IsAlnum(s) ==
    /\ Len(s) > 0
    /\ \A i \in 1..Len(s) : s[i] \in AsciiLetters \cup AsciiDigits \cup OtherLetters

VALID_STACK_NAME_MAX_LEN == 128

StackNameChar(c) == c \in AsciiLetters \cup AsciiDigits \cup {Hyphen}

\* re.match('^[a-zA-Z][a-zA-Z0-9-]*$', s): in Python '$' also matches just
\* before a newline that ends the string.
VALID_STACK_NAME(s) ==
    /\ Len(s) > 0
    /\ s[1] \in AsciiLetters
    /\ \E n \in {Len(s), Len(s) - 1} :
          /\ n >= 1
          /\ \A i \in 2..n : StackNameChar(s[i])
          /\ n = Len(s) - 1 => s[Len(s)] = Newline

-----------------------------------------------------------------------------
(* Inputs the callers draw from *)

ResourceNames == { <<"r", "1">>, <<"r", "2">>, <<"r", "-">> }
StackNames == { <<"r", "1">>, <<"n", "e", "t">>, <<"1", "r">> }
StackIds == {"A", "B"}
Descriptions == { None, Some("demo") }
CidrBlocks == { "10.0.0.0/16" }

-----------------------------------------------------------------------------
(* AWSType *)

AWSType == [
    EC2_INSTANCE |-> "AWS::EC2::Instance",
    EC2_INTERNET_GATEWAY |-> "AWS::EC2::InternetGateway",
    EC2_ROUTE |-> "AWS::EC2::Route",
    EC2_ROUTE_TABLE |-> "AWS::EC2::RouteTable",
    EC2_SECURITY_GROUP |-> "AWS::EC2::SecurityGroup",
    EC2_SUBNET |-> "AWS::EC2::Subnet",
    EC2_SUBNET_ROUTE_TABLE_ASSOCIATION |-> "AWS::EC2::SubnetRouteTableAssociation",
    EC2_VOLUME |-> "AWS::EC2::Volume",
    EC2_VPC |-> "AWS::EC2::VPC",
    EC2_VPC_GATEWAY_ATTACHMENT |-> "AWS::EC2::VPCGatewayAttachment",
    IAM_ROLE |-> "AWS::IAM::Role",
    IAM_POLICY |-> "AWS::IAM::Policy",
    IAM_INSTANCE_PROFILE |-> "AWS::IAM::InstanceProfile",
    ROUTE53_RECORDSET |-> "AWS::Route53::RecordSet",
    S3_BUCKET |-> "AWS::S3::Bucket" ]

AWSTypeMembers == DOMAIN AWSType

-----------------------------------------------------------------------------
(* The record of the last call *)

NoCall == [op |-> "", status |-> "", stack |-> "", element |-> "", estack |-> "",
           obj |-> 0, ni |-> 0, key |-> <<>>, attr |-> "", of |-> "",
           name |-> <<>>]

Ok == "ok"
AssertionError == "AssertionError"
KeyError == "KeyError"
AttributeError == "AttributeError"

-----------------------------------------------------------------------------
(* Intrinsic functions *)

GetAtt(name, attribute) == [tag |-> "GetAtt", name |-> name, attribute |-> attribute]
Ref(name) == [tag |-> "Ref", name |-> name, attribute |-> ""]
Base64(content) == [tag |-> "Base64", name |-> content, attribute |-> ""]

\* '%s.%s' % (data.name, data.attribute), tagged !GetAtt
getatt_representer(data) ==
    [tag |-> "!GetAtt", value |-> data.name \o <<".">> \o <<data.attribute>>]

ref_representer(data) == [tag |-> "!Ref", value |-> data.name]

base64_representer(data) == [tag |-> "!Base64", value |-> data.name]

-----------------------------------------------------------------------------
(* Resource *)

\* The fields of every resource object; a class leaves those it does not
\* have at these values.
Blank == [cls |-> "", name |-> <<>>, kind |-> "", depends |-> None,
          cidr_block |-> "", dest_cidr_block |-> "", tags |-> None,
          vpc |-> 0, gateway |-> 0, route_table |-> 0, subnet |-> 0,
          gateway_attach |-> 0,
          image |-> None, instance_type |-> "", block_devices |-> <<>>,
          instance_profile |-> None, network_interfaces |-> <<>>,
          repository_name |-> <<>>, description |-> None]

\* Resource.__init__: the two assertions, then name, kind, depends = None
ResourceInitOk(name, kind) == kind \in AWSTypeMembers /\ IsAlnum(name)

ResourceInit(cls, name, kind) ==
    [Blank EXCEPT !.cls = cls, !.name = name, !.kind = kind, !.depends = None]

IsInstance(h, id, cls) == id \in DOMAIN h /\ h[id].cls = cls

-----------------------------------------------------------------------------
(* Values of an exported document: every value carries its Python type *)

K(s) == <<s>>
VStr(s) == [t |-> "str", v |-> s]
VInt(n) == [t |-> "int", v |-> n]
VBool(b) == [t |-> "bool", v |-> b]
VIntrinsic(x) == [t |-> "intrinsic", v |-> x]
VList(l) == [t |-> "list", v |-> l]
VMap(d) == [t |-> "map", v |-> d]
VNone == [t |-> "null", v |-> <<>>]

RECURSIVE Flatten(_)
Flatten(ss) == IF ss = <<>> THEN <<>> ELSE Head(ss) \o Flatten(Tail(ss))

\* The representer registered for each intrinsic class (yaml.add_representer)
Representer(x) ==
    CASE x.tag = "GetAtt" -> getatt_representer(x)
      [] x.tag = "Ref" -> ref_representer(x)
      [] x.tag = "Base64" -> base64_representer(x)

\* yaml.dump: the text of a value, as its sequence of tokens.  Mappings are
\* written entry by entry, sequences item by item, intrinsics through their
\* representer.
RECURSIVE YamlDump(_)
YamlDump(x) ==
    CASE x.t = "str" -> x.v
      [] x.t = "null" -> <<"null">>
      [] x.t = "int" -> <<ToString(x.v)>>
      [] x.t = "bool" -> <<IF x.v THEN "true" ELSE "false">>
      [] x.t = "intrinsic" -> LET r == Representer(x.v) IN <<r.tag>> \o r.value
      [] x.t = "list" ->
            <<"[">> \o Flatten([i \in DOMAIN x.v |-> <<"-">> \o YamlDump(x.v[i])])
                    \o <<"]">>
      [] x.t = "map" ->
            <<"{">> \o Flatten([i \in DOMAIN x.v |->
                                  x.v[i][1] \o <<":">> \o YamlDump(x.v[i][2])])
                    \o <<"}">>

-----------------------------------------------------------------------------
(* Block devices and network interfaces *)

\* e3.aws.ec2.ami.AMI is outside this package: an image is its id and its
\* root device; anything else fails isinstance(image, AMI).
Images == { [isAMI |-> TRUE, id |-> "ami-1", root_device |-> "/dev/sda1"],
            [isAMI |-> FALSE, id |-> "", root_device |-> ""] }
DiskSizes == { None, Some(20) }

EphemeralDisk(device_name, id) ==
    [cls |-> "EphemeralDisk", device_name |-> device_name, n |-> id]
EBSDisk(device_name, size) ==
    [cls |-> "EBSDisk", device_name |-> device_name, n |-> size]

BlockDevices == { EphemeralDisk("/dev/sdb", 0), EBSDisk("/dev/sdc", 20) }

BlockDeviceProperties(bd) ==
    IF bd.cls = "EphemeralDisk"
    THEN << <<K("DeviceName"), VStr(<<bd.device_name>>)>>,
            <<K("VirtualName"), VStr(<<"ephemeral", ToString(bd.n)>>)>> >>
    ELSE << <<K("DeviceName"), VStr(<<bd.device_name>>)>>,
            <<K("Ebs"), VMap(<< <<K("VolumeSize"), VStr(<<ToString(bd.n)>>)>>,
                                <<K("VolumeType"), VStr(<<"standard">>)>> >>)>> >>

\* NetworkInterface.__init__ after its isinstance(subnet, Subnet) assertion
NetworkInterface(subnet, public_ip, groups, device_index, description) ==
    [subnet |-> subnet, public_ip |-> public_ip, groups |-> groups,
     device_index |-> device_index, description |-> description]

NetworkInterfaceProperties(h, ni) ==
    << <<K("AssociatePublicIpAddress"), VBool(ni.public_ip)>>,
       <<K("SubnetId"), VIntrinsic(Ref(h[ni.subnet].name))>>,
       <<K("DeleteOnTermination"), VBool(TRUE)>> >>
    \o (IF ~IsNone(ni.device_index)
        THEN << <<K("DeviceIndex"), VInt(Val(ni.device_index))>> >> ELSE <<>>)
    \o (IF ~IsNone(ni.groups) /\ Val(ni.groups) # <<>>
        THEN << <<K("GroupSet"),
                  VList([i \in DOMAIN Val(ni.groups) |->
                           VIntrinsic(Ref(h[Val(ni.groups)[i]].name))])>> >>
        ELSE <<>>)
    \o (IF ~IsNone(ni.description)
        THEN << <<K("Description"), VStr(<<Val(ni.description)>>)>> >> ELSE <<>>)

-----------------------------------------------------------------------------
(* Resource: attributes, references, properties, export *)

ATTRIBUTES(cls) ==
    CASE cls = "Instance" ->
            <<"AvailabilityZone", "PrivateDnsName", "PublicDnsName",
              "PrivateIp", "PublicIp">>
      [] cls = "VPC" ->
            <<"CidrBlock", "CidrBlockAssociations", "DefaultNetworkAcl",
              "DefaultSecurityGroup", "Ipv6CidrBlocks">>
      [] cls = "Repository" ->
            <<"Arn", "CloneUrlHttp", "CloneUrlSsh", "Name">>
      [] OTHER -> <<>>

InTuple(x, tup) == \E i \in DOMAIN tup : tup[i] = x

\* A slip in Resource.getatt: the attribute name is not checked
getattUnchecked(self, name) == TRUE

\* Resource.getatt: assert name in self.ATTRIBUTES, then GetAtt(self.name, name)
getattOk(self, name) == InTuple(name, ATTRIBUTES(self.cls))
getatt(self, name) == GetAtt(self.name, name)

\* Resource.ref
ref(self) == Ref(self.name)

\* Instance.public_ip
InstancePublicIp(self) == GetAtt(self.name, "PublicIp")

\* The properties property of each class
properties(h, n, self) ==
    CASE self.cls = "VPC" ->
            << <<K("CidrBlock"), VStr(<<self.cidr_block>>)>> >>
      [] self.cls = "Subnet" ->
            << <<K("CidrBlock"), VStr(<<self.cidr_block>>)>>,
               <<K("VpcId"), VIntrinsic(ref(h[self.vpc]))>> >>
      [] self.cls = "VPCGatewayAttachment" ->
            << <<K("VpcId"), VIntrinsic(ref(h[self.vpc]))>>,
               <<K("InternetGatewayId"), VIntrinsic(ref(h[self.gateway]))>> >>
      [] self.cls = "RouteTable" ->
            << <<K("VpcId"), VIntrinsic(ref(h[self.vpc]))>> >>
            \o (IF ~IsNone(self.tags)
                THEN << <<K("Tags"), VMap(Val(self.tags))>> >> ELSE <<>>)
      [] self.cls = "Route" ->
            << <<K("RouteTableId"), VIntrinsic(ref(h[self.route_table]))>>,
               <<K("DestinationCidrBlock"), VStr(<<self.dest_cidr_block>>)>>,
               <<K("GatewayId"), VIntrinsic(ref(h[self.gateway]))>> >>
      [] self.cls = "SubnetRouteTableAssociation" ->
            << <<K("SubnetId"), VIntrinsic(ref(h[self.subnet]))>>,
               <<K("RouteTableId"), VIntrinsic(ref(h[self.route_table]))>> >>
      [] self.cls = "Instance" ->
            << <<K("ImageId"), VStr(<<Val(self.image).id>>)>>,
               <<K("InstanceType"), VStr(<<self.instance_type>>)>>,
               <<K("BlockDeviceMappings"),
                 VList([i \in DOMAIN self.block_devices |->
                          VMap(BlockDeviceProperties(self.block_devices[i]))])>> >>
            \o (IF ~IsNone(self.instance_profile)
                THEN << <<K("IamInstanceProfile"),
                          VIntrinsic(ref(h[Val(self.instance_profile)]))>> >>
                ELSE <<>>)
            \o (IF self.network_interfaces # <<>>
                THEN << <<K("NetworkInterfaces"),
                          VList([i \in DOMAIN self.network_interfaces |->
                                   VMap(NetworkInterfaceProperties(
                                          h, n[self.network_interfaces[i][2]]))])>> >>
                ELSE <<>>)
      [] self.cls = "Repository" ->
            << <<K("RepositoryName"), VStr(self.repository_name)>>,
               <<K("RepositoryDescription"),
                 IF IsNone(self.description) THEN VNone
                 ELSE VStr(<<Val(self.description)>>)>> >>
      [] OTHER -> <<>>

\* A slip in Resource.export: DependsOn is written whether or not depends is
\* set
ResourceExportAlwaysDepends(h, n, self) ==
    << <<K("Type"), VStr(<<AWSType[self.kind]>>)>>,
       <<K("Properties"), VMap(properties(h, n, self))>>,
       <<K("DependsOn"), IF IsNone(self.depends) THEN VNone
                         ELSE VStr(Val(self.depends))>> >>

\* Resource.export
ResourceExport(h, n, self) ==
    << <<K("Type"), VStr(<<AWSType[self.kind]>>)>>,
       <<K("Properties"), VMap(properties(h, n, self))>> >>
    \o (IF ~IsNone(self.depends)
        THEN << <<K("DependsOn"), VStr(Val(self.depends))>> >> ELSE <<>>)

-----------------------------------------------------------------------------
(* Stack *)

\* Stack.__init__
StackInitOk(name) == VALID_STACK_NAME(name) /\ Len(name) <= VALID_STACK_NAME_MAX_LEN

Stack(name, description) ==
    [name |-> name, description |-> description, resources |-> <<>>]

\* Stack.add, element a Resource
StackAddResource(resources, h, element) ==
    IF HasKey(resources, h[element].name)
    THEN [status |-> AssertionError, resources |-> resources]
    ELSE [status |-> Ok, resources |-> DictPut(resources, h[element].name, element)]

\* Stack.add, element a Stack: the loop over element.resources.values().  The
\* assertion of the loop reads element.name, the name of the merged stack.
\* (When element is self the loop walks the live dict; every assignment then
\* rebinds a key to the value it already has, so the walk equals this one.)
RECURSIVE StackAddStack(_, _, _, _)
StackAddStack(resources, h, element_name, values) ==
    IF values = <<>>
    THEN [status |-> Ok, resources |-> resources]
    ELSE IF HasKey(resources, element_name)
         THEN [status |-> AssertionError, resources |-> resources]
         ELSE StackAddStack(DictPut(resources, h[Head(values)].name, Head(values)),
                            h, element_name, Tail(values))

\* A slip in Stack.export: the resources entered last first
RECURSIVE ExportResourcesReversed(_, _, _, _)
ExportResourcesReversed(acc, h, n, values) ==
    IF values = <<>> THEN acc
    ELSE DictPut(ExportResourcesReversed(acc, h, n, Tail(values)),
                 h[Head(values)].name, VMap(ResourceExport(h, n, h[Head(values)])))

\* Stack.export
RECURSIVE ExportResources(_, _, _, _)
ExportResources(acc, h, n, values) ==
    IF values = <<>> THEN acc
    ELSE ExportResources(
             DictPut(acc, h[Head(values)].name, VMap(ResourceExport(h, n, h[Head(values)]))),
             h, n, Tail(values))

StackExport(h, n, self) ==
    << <<K("AWSTemplateFormatVersion"), VStr(<<"2010-09-09">>)>>,
       <<K("Resources"), VMap(ExportResources(<<>>, h, n, DictValues(self.resources)))>> >>
    \o (IF ~IsNone(self.description)
        THEN << <<K("Description"), VStr(<<Val(self.description)>>)>> >> ELSE <<>>)

\* Stack.body
StackBody(h, n, self) == YamlDump(VMap(StackExport(h, n, self)))

-----------------------------------------------------------------------------
(* Initial state: nothing constructed yet *)

Init ==
    /\ heap = <<>>
    /\ nis = <<>>
    /\ stacks = [sid \in StackIds |-> None]
    /\ call = NoCall
    /\ doc = None
    /\ body = None

Returns(c, d, b) == call' = c /\ doc' = d /\ body' = b

-----------------------------------------------------------------------------
(* Constructors of resources *)

Construct(op, ok, obj) ==
    /\ IF ok
       THEN /\ heap' = Append(heap, obj)
            /\ Returns([NoCall EXCEPT !.op = op, !.status = Ok, !.obj = Len(heap) + 1],
                       None, None)
       ELSE /\ heap' = heap
            /\ Returns([NoCall EXCEPT !.op = op, !.status = AssertionError], None, None)
    /\ UNCHANGED <<nis, stacks>>

\* VPC.__init__
VPCInitOk(name) == ResourceInitOk(name, "EC2_VPC")
VPCInit(name, cidr_block) ==
    [ResourceInit("VPC", name, "EC2_VPC") EXCEPT !.cidr_block = cidr_block]

VPC_init(name, cidr_block) ==
    Construct("VPC.__init__", VPCInitOk(name), VPCInit(name, cidr_block))

\* Subnet.__init__
SubnetInitOk(h, name, vpc) ==
    ResourceInitOk(name, "EC2_SUBNET") /\ IsInstance(h, vpc, "VPC")
SubnetInit(name, vpc, cidr_block) ==
    [ResourceInit("Subnet", name, "EC2_SUBNET")
        EXCEPT !.cidr_block = cidr_block, !.vpc = vpc]

\* InternetGateway.__init__
InternetGatewayInitOk(name) == ResourceInitOk(name, "EC2_INTERNET_GATEWAY")
InternetGatewayInit(name) ==
    ResourceInit("InternetGateway", name, "EC2_INTERNET_GATEWAY")

\* VPCGatewayAttachment.__init__
VPCGatewayAttachmentInitOk(h, name, vpc, gateway) ==
    /\ ResourceInitOk(name, "EC2_VPC_GATEWAY_ATTACHMENT")
    /\ IsInstance(h, vpc, "VPC")
    /\ IsInstance(h, gateway, "InternetGateway")
VPCGatewayAttachmentInit(name, vpc, gateway) ==
    [ResourceInit("VPCGatewayAttachment", name, "EC2_VPC_GATEWAY_ATTACHMENT")
        EXCEPT !.vpc = vpc, !.gateway = gateway]

\* RouteTable.__init__
RouteTableInitOk(h, name, vpc) ==
    ResourceInitOk(name, "EC2_ROUTE_TABLE") /\ IsInstance(h, vpc, "VPC")
RouteTableInit(name, vpc, tags) ==
    [ResourceInit("RouteTable", name, "EC2_ROUTE_TABLE")
        EXCEPT !.vpc = vpc, !.tags = tags]

\* Route.__init__: gateway_attach is not type-checked; depends is its name
RouteInitOk(h, name, route_table, gateway, gateway_attach) ==
    /\ ResourceInitOk(name, "EC2_ROUTE")
    /\ IsInstance(h, route_table, "RouteTable")
    /\ IsInstance(h, gateway, "InternetGateway")
    /\ gateway_attach \in DOMAIN h
RouteInit(h, name, route_table, dest_cidr_block, gateway, gateway_attach) ==
    [ResourceInit("Route", name, "EC2_ROUTE")
        EXCEPT !.route_table = route_table, !.dest_cidr_block = dest_cidr_block,
               !.gateway = gateway, !.gateway_attach = gateway_attach,
               !.depends = Some(h[gateway_attach].name)]

\* SubnetRouteTableAssociation.__init__: no argument is type-checked
SubnetRouteTableAssociationInitOk(name) ==
    ResourceInitOk(name, "EC2_SUBNET_ROUTE_TABLE_ASSOCIATION")
SubnetRouteTableAssociationInit(name, subnet, route_table) ==
    [ResourceInit("SubnetRouteTableAssociation", name,
                  "EC2_SUBNET_ROUTE_TABLE_ASSOCIATION")
        EXCEPT !.subnet = subnet, !.route_table = route_table]

\* Instance.__init__: the root disk is added (to block_devices) when a disk
\* size is given
InstanceInitOk(name, image) == ResourceInitOk(name, "EC2_INSTANCE") /\ image.isAMI
InstanceInit(name, image, instance_type, disk_size) ==
    [ResourceInit("Instance", name, "EC2_INSTANCE")
        EXCEPT !.image = Some(image), !.instance_type = instance_type,
               !.block_devices = IF IsNone(disk_size) THEN <<>>
                                 ELSE <<EBSDisk(image.root_device, Val(disk_size))>>,
               !.instance_profile = None,
               !.network_interfaces = <<>>]

Instance_init(name, image, instance_type, disk_size) ==
    Construct("Instance.__init__", InstanceInitOk(name, image),
              InstanceInit(name, image, instance_type, disk_size))

Subnet_init(name, vpc, cidr_block) ==
    Construct("Subnet.__init__", SubnetInitOk(heap, name, vpc),
              SubnetInit(name, vpc, cidr_block))

InternetGateway_init(name) ==
    Construct("InternetGateway.__init__", InternetGatewayInitOk(name),
              InternetGatewayInit(name))

VPCGatewayAttachment_init(name, vpc, gateway) ==
    Construct("VPCGatewayAttachment.__init__",
              VPCGatewayAttachmentInitOk(heap, name, vpc, gateway),
              VPCGatewayAttachmentInit(name, vpc, gateway))

RouteTable_init(name, vpc, tags) ==
    Construct("RouteTable.__init__", RouteTableInitOk(heap, name, vpc),
              RouteTableInit(name, vpc, tags))

Route_init(name, route_table, dest_cidr_block, gateway, gateway_attach) ==
    Construct("Route.__init__",
              RouteInitOk(heap, name, route_table, gateway, gateway_attach),
              IF RouteInitOk(heap, name, route_table, gateway, gateway_attach)
              THEN RouteInit(heap, name, route_table, dest_cidr_block, gateway,
                             gateway_attach)
              ELSE Blank)

SubnetRouteTableAssociation_init(name, subnet, route_table) ==
    Construct("SubnetRouteTableAssociation.__init__",
              SubnetRouteTableAssociationInitOk(name),
              SubnetRouteTableAssociationInit(name, subnet, route_table))

\* Repository.__init__ (codecommit): the resource name is the repository
\* name with every run of characters outside [a-zA-Z0-9] removed; the kind
\* is looked up as AWSType.CODE_COMMIT_REPOSITORY while the arguments of
\* Resource.__init__ are evaluated, and a name that AWSType does not have
\* raises AttributeError before Resource.__init__ runs.
IsAsciiAlnum(c) == c \in AsciiLetters \cup AsciiDigits
ReSubNonAlnum(name) == SelectSeq(name, IsAsciiAlnum)

RepositoryKind == "CODE_COMMIT_REPOSITORY"
RepositoryKindFound == RepositoryKind \in AWSTypeMembers

RepositoryInitOk(name) == ResourceInitOk(ReSubNonAlnum(name), RepositoryKind)
RepositoryInit(name, description) ==
    [ResourceInit("Repository", ReSubNonAlnum(name), RepositoryKind)
        EXCEPT !.repository_name = name, !.description = description]

Repository_init(name, description) ==
    /\ IF ~RepositoryKindFound
       THEN /\ heap' = heap
            /\ Returns([NoCall EXCEPT !.op = "Repository.__init__",
                                      !.status = AttributeError, !.name = name],
                       None, None)
       ELSE IF RepositoryInitOk(name)
       THEN /\ heap' = Append(heap, RepositoryInit(name, description))
            /\ Returns([NoCall EXCEPT !.op = "Repository.__init__", !.status = Ok,
                                      !.obj = Len(heap) + 1, !.name = name],
                       None, None)
       ELSE /\ heap' = heap
            /\ Returns([NoCall EXCEPT !.op = "Repository.__init__",
                                      !.status = AssertionError, !.name = name],
                       None, None)
    /\ UNCHANGED <<nis, stacks>>

-----------------------------------------------------------------------------
(* Calls on a resource *)

AttributeNames == { "PublicIp", "CidrBlock", "Name", "Bogus" }

Resource_getatt(obj, name) ==
    /\ obj \in DOMAIN heap
    /\ IF getattOk(heap[obj], name)
       THEN Returns([NoCall EXCEPT !.op = "Resource.getatt", !.status = Ok,
                                   !.obj = obj, !.attr = name],
                    Some(VIntrinsic(getatt(heap[obj], name))), None)
       ELSE Returns([NoCall EXCEPT !.op = "Resource.getatt", !.status = AssertionError,
                                   !.obj = obj, !.attr = name], None, None)
    /\ UNCHANGED <<heap, nis, stacks>>

Resource_ref(obj) ==
    /\ obj \in DOMAIN heap
    /\ Returns([NoCall EXCEPT !.op = "Resource.ref", !.status = Ok, !.obj = obj],
               Some(VIntrinsic(ref(heap[obj]))), None)
    /\ UNCHANGED <<heap, nis, stacks>>

Instance_public_ip(obj) ==
    /\ IsInstance(heap, obj, "Instance")
    /\ Returns([NoCall EXCEPT !.op = "Instance.public_ip", !.status = Ok, !.obj = obj],
               Some(VIntrinsic(InstancePublicIp(heap[obj]))), None)
    /\ UNCHANGED <<heap, nis, stacks>>

\* VPC.cidrblock: self.getatt('CidrBlock')
VPC_cidrblock(obj) ==
    /\ IsInstance(heap, obj, "VPC")
    /\ IF getattOk(heap[obj], "CidrBlock")
       THEN Returns([NoCall EXCEPT !.op = "VPC.cidrblock", !.status = Ok, !.obj = obj],
                    Some(VIntrinsic(getatt(heap[obj], "CidrBlock"))), None)
       ELSE Returns([NoCall EXCEPT !.op = "VPC.cidrblock", !.status = AssertionError,
                                   !.obj = obj], None, None)
    /\ UNCHANGED <<heap, nis, stacks>>

Resource_export(obj) ==
    /\ obj \in DOMAIN heap
    /\ Returns([NoCall EXCEPT !.op = "Resource.export", !.status = Ok, !.obj = obj],
               Some(VMap(ResourceExport(heap, nis, heap[obj]))), None)
    /\ UNCHANGED <<heap, nis, stacks>>

\* yaml.dump of the value the last call returned
yaml_dump ==
    /\ ~IsNone(doc)
    /\ call.op # "yaml.dump"
    /\ Returns([call EXCEPT !.op = "yaml.dump", !.of = call.op],
               doc, Some(YamlDump(Val(doc))))
    /\ UNCHANGED <<heap, nis, stacks>>

-----------------------------------------------------------------------------
(* Network interfaces and Instance.add *)

NetworkInterface_init(subnet, public_ip, groups, device_index, description) ==
    /\ IF IsInstance(heap, subnet, "Subnet")
       THEN /\ nis' = Append(nis, NetworkInterface(subnet, public_ip, groups,
                                                   device_index, description))
            /\ Returns([NoCall EXCEPT !.op = "NetworkInterface.__init__",
                                      !.status = Ok, !.ni = Len(nis) + 1], None, None)
       ELSE /\ nis' = nis
            /\ Returns([NoCall EXCEPT !.op = "NetworkInterface.__init__",
                                      !.status = AssertionError], None, None)
    /\ UNCHANGED <<heap, stacks>>

\* A slip in the automatic index: the number of interfaces so far, plus one
AutoIndexByCount(network_interfaces) == Len(network_interfaces) + 1

\* index = max(list(self.network_interfaces.keys()) + [0]) + 1
AutoIndex(network_interfaces) == SetMax(DictKeys(network_interfaces) \cup {0}) + 1

\* A slip in Instance.add: the explicit index is not checked
InstanceAddIndexUnchecked(network_interfaces, device_index) ==
    IF IsNone(device_index)
    THEN [status |-> Ok, index |-> AutoIndex(network_interfaces)]
    ELSE [status |-> Ok, index |-> Val(device_index)]

\* Instance.add, device a NetworkInterface: the index it is stored under, or
\* the failed assertion
InstanceAddIndex(network_interfaces, device_index) ==
    IF IsNone(device_index)
    THEN [status |-> Ok, index |-> AutoIndex(network_interfaces)]
    ELSE IF HasKey(network_interfaces, Val(device_index))
         THEN [status |-> AssertionError, index |-> Val(device_index)]
         ELSE [status |-> Ok, index |-> Val(device_index)]

Instance_add_NetworkInterface(obj, device) ==
    /\ IsInstance(heap, obj, "Instance")
    /\ device \in DOMAIN nis
    /\ LET r == InstanceAddIndex(heap[obj].network_interfaces, nis[device].device_index) IN
          /\ IF r.status = Ok
             THEN /\ nis' = [nis EXCEPT ![device].device_index = Some(r.index)]
                  /\ heap' = [heap EXCEPT ![obj].network_interfaces =
                                 DictPut(@, r.index, device)]
             ELSE UNCHANGED <<heap, nis>>
          /\ Returns([NoCall EXCEPT !.op = "Instance.add", !.status = r.status,
                                    !.element = "NetworkInterface",
                                    !.obj = obj, !.ni = device], None, None)
    /\ UNCHANGED stacks

Instance_add_BlockDevice(obj, device) ==
    /\ IsInstance(heap, obj, "Instance")
    /\ heap' = [heap EXCEPT ![obj].block_devices = Append(@, device)]
    /\ Returns([NoCall EXCEPT !.op = "Instance.add", !.status = Ok,
                              !.element = "BlockDevice", !.obj = obj], None, None)
    /\ UNCHANGED <<nis, stacks>>

\* device neither a NetworkInterface nor a BlockDevice: assert False
Instance_add_other(obj) ==
    /\ IsInstance(heap, obj, "Instance")
    /\ Returns([NoCall EXCEPT !.op = "Instance.add", !.status = AssertionError,
                              !.element = "other", !.obj = obj], None, None)
    /\ UNCHANGED <<heap, nis, stacks>>

\* Instance.set_instance_profile: the profile is a resource of the IAM
\* package; here any resource object, of which properties takes the ref
Instance_set_instance_profile(obj, profile) ==
    /\ IsInstance(heap, obj, "Instance")
    /\ profile \in DOMAIN heap
    /\ heap' = [heap EXCEPT ![obj].instance_profile = Some(profile)]
    /\ Returns([NoCall EXCEPT !.op = "Instance.set_instance_profile", !.status = Ok,
                              !.obj = obj], None, None)
    /\ UNCHANGED <<nis, stacks>>

-----------------------------------------------------------------------------
(* Operations on stacks *)

Stack_init(sid, name, description) ==
    /\ IsNone(stacks[sid])
    /\ IF StackInitOk(name)
       THEN /\ stacks' = [stacks EXCEPT ![sid] = Some(Stack(name, description))]
            /\ Returns([NoCall EXCEPT !.op = "Stack.__init__", !.status = Ok,
                                      !.stack = sid, !.name = name], None, None)
       ELSE /\ stacks' = stacks
            /\ Returns([NoCall EXCEPT !.op = "Stack.__init__",
                                      !.status = AssertionError, !.name = name],
                       None, None)
    /\ UNCHANGED <<heap, nis>>

SetResources(sid, r) ==
    stacks' = [stacks EXCEPT ![sid] = Some([Val(stacks[sid]) EXCEPT !.resources = r.resources])]

Stack_add_Resource(sid, element) ==
    /\ ~IsNone(stacks[sid])
    /\ element \in DOMAIN heap
    /\ LET r == StackAddResource(Val(stacks[sid]).resources, heap, element) IN
          /\ SetResources(sid, r)
          /\ Returns([NoCall EXCEPT !.op = "Stack.add", !.status = r.status,
                                    !.stack = sid, !.element = "Resource",
                                    !.obj = element], None, None)
    /\ UNCHANGED <<heap, nis>>

Stack_add_Stack(sid, element) ==
    /\ ~IsNone(stacks[sid])
    /\ ~IsNone(stacks[element])
    /\ LET e == Val(stacks[element])
           r == StackAddStack(Val(stacks[sid]).resources, heap, e.name,
                              DictValues(e.resources)) IN
          /\ SetResources(sid, r)
          /\ Returns([NoCall EXCEPT !.op = "Stack.add", !.status = r.status,
                                    !.stack = sid, !.element = "Stack",
                                    !.estack = element], None, None)
    /\ UNCHANGED <<heap, nis>>

\* element neither a Resource nor a Stack: the first assertion of add
Stack_add_other(sid) ==
    /\ ~IsNone(stacks[sid])
    /\ Returns([NoCall EXCEPT !.op = "Stack.add", !.status = AssertionError,
                              !.stack = sid, !.element = "other"], None, None)
    /\ UNCHANGED <<heap, nis, stacks>>

Stack_getitem(sid, key) ==
    /\ ~IsNone(stacks[sid])
    /\ LET res == Val(stacks[sid]).resources IN
       IF ~HasKey(res, key)
       THEN Returns([NoCall EXCEPT !.op = "Stack.__getitem__", !.status = KeyError,
                                   !.stack = sid, !.key = key], None, None)
       ELSE Returns([NoCall EXCEPT !.op = "Stack.__getitem__", !.status = Ok,
                                   !.stack = sid, !.key = key,
                                   !.obj = DictGet(res, key)], None, None)
    /\ UNCHANGED <<heap, nis, stacks>>

\* A slip in Stack.export: the resources are taken out of the mapping as they
\* are exported
Stack_export_Draining(sid) ==
    /\ ~IsNone(stacks[sid])
    /\ Returns([NoCall EXCEPT !.op = "Stack.export", !.status = Ok, !.stack = sid],
               Some(VMap(StackExport(heap, nis, Val(stacks[sid])))), None)
    /\ stacks' = [stacks EXCEPT ![sid] = Some([Val(stacks[sid]) EXCEPT !.resources = <<>>])]
    /\ UNCHANGED <<heap, nis>>

Stack_export(sid) ==
    /\ ~IsNone(stacks[sid])
    /\ Returns([NoCall EXCEPT !.op = "Stack.export", !.status = Ok, !.stack = sid],
               Some(VMap(StackExport(heap, nis, Val(stacks[sid])))), None)
    /\ UNCHANGED <<heap, nis, stacks>>

Stack_body(sid) ==
    /\ ~IsNone(stacks[sid])
    /\ Returns([NoCall EXCEPT !.op = "Stack.body", !.status = Ok, !.stack = sid],
               None, Some(StackBody(heap, nis, Val(stacks[sid]))))
    /\ UNCHANGED <<heap, nis, stacks>>

-----------------------------------------------------------------------------
(* Building and merging stacks of plain resources *)

NextStack ==
    \/ /\ Len(heap) < MaxHeap
       /\ \E name \in ResourceNames, c \in CidrBlocks : VPC_init(name, c)
    \/ \E sid \in StackIds, name \in StackNames, d \in Descriptions :
          Stack_init(sid, name, d)
    \/ \E sid \in StackIds, element \in DOMAIN heap : Stack_add_Resource(sid, element)
    \/ \E sid \in StackIds, element \in StackIds : Stack_add_Stack(sid, element)
    \/ \E sid \in StackIds : Stack_add_other(sid)
    \/ \E sid \in StackIds, key \in ResourceNames : Stack_getitem(sid, key)
    \/ \E sid \in StackIds : Stack_export(sid)

SpecStack == Init /\ [][NextStack]_vars

-----------------------------------------------------------------------------
(* Building an instance: a VPC and a subnet exist; the caller constructs    *)
(* one instance and some network interfaces and attaches devices to the     *)
(* instance.                                                                *)

InitInstance ==
    /\ heap = << VPCInit(<<"r", "1">>, "10.0.0.0/16"),
                 SubnetInit(<<"r", "2">>, 1, "10.0.0.0/16") >>
    /\ nis = <<>>
    /\ stacks = [sid \in StackIds |-> None]
    /\ call = NoCall
    /\ doc = None
    /\ body = None

InstanceNames == { <<"r", "1">>, <<"r", "9">> }
InstanceTypes == { "t2.micro" }
PublicIps == { FALSE }
Groups == { None }
NiDescriptions == { None }
DeviceIndexes == { None } \cup { Some(i) : i \in 0..MaxIndex }
MaxBlockDevices == 1

NextInstance ==
    \/ /\ \A obj \in DOMAIN heap : heap[obj].cls # "Instance"
       /\ \E name \in InstanceNames, image \in Images, t \in InstanceTypes,
             disk_size \in DiskSizes : Instance_init(name, image, t, disk_size)
    \/ /\ Len(nis) < MaxNis
       /\ \E subnet \in DOMAIN heap, p \in PublicIps, g \in Groups,
             i \in DeviceIndexes, d \in NiDescriptions :
             NetworkInterface_init(subnet, p, g, i, d)
    \/ \E obj \in DOMAIN heap, device \in DOMAIN nis :
          Instance_add_NetworkInterface(obj, device)
    \/ \E obj \in DOMAIN heap, device \in BlockDevices :
          /\ Len(heap[obj].block_devices) < MaxBlockDevices
          /\ Instance_add_BlockDevice(obj, device)
    \/ \E obj \in DOMAIN heap : Instance_add_other(obj)

SpecInstance == InitInstance /\ [][NextInstance]_vars

-----------------------------------------------------------------------------
(* Rendering: the caller builds an instance with its interfaces, registers  *)
(* resources in a stack and exports and renders it, in any order.           *)

RenderIndexes == { None, Some(1) }
RenderStacks == { "A" }

NextRender ==
    \/ /\ \A obj \in DOMAIN heap : heap[obj].cls # "Instance"
       /\ \E name \in InstanceNames, image \in Images, t \in InstanceTypes,
             disk_size \in DiskSizes : Instance_init(name, image, t, disk_size)
    \/ /\ Len(nis) < MaxNis
       /\ \E subnet \in DOMAIN heap, p \in PublicIps, g \in Groups,
             i \in RenderIndexes, d \in NiDescriptions :
             NetworkInterface_init(subnet, p, g, i, d)
    \/ \E obj \in DOMAIN heap, device \in DOMAIN nis :
          Instance_add_NetworkInterface(obj, device)
    \/ \E obj \in DOMAIN heap, profile \in DOMAIN heap :
          Instance_set_instance_profile(obj, profile)
    \/ \E sid \in RenderStacks, name \in StackNames, d \in Descriptions :
          Stack_init(sid, name, d)
    \/ \E sid \in RenderStacks, element \in DOMAIN heap : Stack_add_Resource(sid, element)
    \/ \E sid \in RenderStacks : Stack_export(sid)
    \/ \E sid \in RenderStacks : Stack_body(sid)

SpecRender == InitInstance /\ [][NextRender]_vars

-----------------------------------------------------------------------------
(* Resources of every class: a network and an instance have been            *)
(* constructed, each constructor having passed its assertions; the caller   *)
(* asks the resources for references, attributes and exports and dumps      *)
(* what it gets.                                                            *)

TagSets == { None, Some(<< <<K("Name"), VStr(<<"main">>)>> >>) }

Network(vpc_name, attach, tags) ==
    LET h1 == << VPCInit(vpc_name, "10.0.0.0/16") >>
        h2 == Append(h1, SubnetInit(<<"r", "2">>, 1, "10.0.0.0/16"))
        h3 == Append(h2, InternetGatewayInit(<<"r", "3">>))
        h4 == Append(h3, VPCGatewayAttachmentInit(<<"r", "4">>, 1, 3))
        h5 == Append(h4, RouteTableInit(<<"r", "5">>, 1, tags))
        h6 == Append(h5, RouteInit(h5, <<"r", "6">>, 5, "0.0.0.0/0", 3, attach))
    IN  Append(h6, SubnetRouteTableAssociationInit(<<"r", "7">>, 2, 5))

NetworkOk(vpc_name, attach, tags) ==
    LET h == Network(vpc_name, attach, tags) IN
        /\ VPCInitOk(vpc_name)
        /\ SubnetInitOk(h, h[2].name, 1)
        /\ InternetGatewayInitOk(h[3].name)
        /\ VPCGatewayAttachmentInitOk(h, h[4].name, 1, 3)
        /\ RouteTableInitOk(h, h[5].name, 1)
        /\ RouteInitOk(SubSeq(h, 1, 5), h[6].name, 5, 3, attach)
        /\ SubnetRouteTableAssociationInitOk(h[7].name)

InitResource ==
    /\ \E vpc_name \in ResourceNames, attach \in 1..5, tags \in TagSets,
          name \in ResourceNames, image \in Images, disk_size \in DiskSizes :
          /\ NetworkOk(vpc_name, attach, tags)
          /\ InstanceInitOk(name, image)
          /\ heap = Append(Network(vpc_name, attach, tags),
                           InstanceInit(name, image, "t2.micro", disk_size))
    /\ nis = <<>>
    /\ stacks = [sid \in StackIds |-> None]
    /\ call = NoCall
    /\ doc = None
    /\ body = None

NextResource ==
    \/ \E obj \in DOMAIN heap, name \in AttributeNames : Resource_getatt(obj, name)
    \/ \E obj \in DOMAIN heap : Resource_ref(obj)
    \/ \E obj \in DOMAIN heap : Instance_public_ip(obj)
    \/ \E obj \in DOMAIN heap : VPC_cidrblock(obj)
    \/ \E obj \in DOMAIN heap : Resource_export(obj)
    \/ yaml_dump

SpecResource == InitResource /\ [][NextResource]_vars

-----------------------------------------------------------------------------
(* Claims about Stack.add *)

IsAdd(c) == c.op = "Stack.add" /\ c.element \in {"Resource", "Stack"}

\* The resources the element of an add brings, in the order add visits them
Incoming(c) ==
    IF c.element = "Resource" THEN <<c.obj>>
    ELSE DictValues(Val(stacks[c.estack]).resources)

IncomingNames(c) == {heap[Incoming(c)[i]].name : i \in DOMAIN Incoming(c)}

\* A.add(r) for each r of values, in order, stopping at the first that fails
RECURSIVE AddEach(_, _, _)
AddEach(resources, h, values) ==
    IF values = <<>>
    THEN [status |-> Ok, resources |-> resources]
    ELSE LET r == StackAddResource(resources, h, Head(values)) IN
         IF r.status # Ok THEN r ELSE AddEach(r.resources, h, Tail(values))

\* C1: an add (of a resource, or of another stack) fails whenever a name it
\* brings is already a key of the target stack's resources.
C1_DuplicateNameFails ==
    [][(IsAdd(call') /\ call'.estack # call'.stack) =>
          ((IncomingNames(call') \cap DictKeys(Val(stacks[call'.stack]).resources) # {})
              => call'.status = AssertionError)]_vars

\* C2: an add that fails leaves the target's resources (keys, bound
\* resources, order) as they were.
C2_FailedAddNoMutation ==
    [][(call'.op = "Stack.add" /\ call'.status # Ok) =>
          stacks'[call'.stack] = stacks[call'.stack]]_vars

\* C3: no step rebinds or removes a registered name: every key of a stack
\* stays bound to the resource first registered under it.
C3_NoSilentOverwrite ==
    [][\A sid \in StackIds :
          ~IsNone(stacks[sid]) =>
              /\ ~IsNone(stacks'[sid])
              /\ \A k \in DictKeys(Val(stacks[sid]).resources) :
                    /\ HasKey(Val(stacks'[sid]).resources, k)
                    /\ DictGet(Val(stacks'[sid]).resources, k)
                          = DictGet(Val(stacks[sid]).resources, k)]_vars

\* C4: for stacks A and B (B another stack than A), A.add(B) ends as A.add(r)
\* for each r of B in B's order ends: the same success or failure and the
\* same resources of A.
C4_MergeIsAddEach ==
    [][(call'.op = "Stack.add" /\ call'.element = "Stack"
           /\ call'.estack # call'.stack) =>
          LET r == AddEach(Val(stacks[call'.stack]).resources, heap, Incoming(call')) IN
             /\ call'.status = r.status
             /\ Val(stacks'[call'.stack]).resources = r.resources]_vars

-----------------------------------------------------------------------------
(* Claims about Stack.export *)

\* C8: the export of a stack has the fixed format version, one Resources
\* entry per registered resource, keyed by the registered name, valued by
\* that resource's export, in insertion order, and a Description exactly when
\* the description is set.
C8_StackExport ==
    call.op = "Stack.export" =>
        LET s == Val(stacks[call.stack])
            d == Val(doc).v
            R == DictGet(d, K("Resources")).v
        IN  /\ HasKey(d, K("AWSTemplateFormatVersion"))
            /\ DictGet(d, K("AWSTemplateFormatVersion")) = VStr(<<"2010-09-09">>)
            /\ HasKey(d, K("Resources"))
            /\ DictKeySeq(R) = DictKeySeq(s.resources)
            /\ \A i \in DOMAIN R :
                  R[i][2] = VMap(ResourceExport(heap, nis, heap[s.resources[i][2]]))
            /\ HasKey(d, K("Description")) <=> ~IsNone(s.description)
            /\ ~IsNone(s.description) =>
                  DictGet(d, K("Description")) = VStr(<<Val(s.description)>>)
            /\ DictKeys(d) \subseteq {K("AWSTemplateFormatVersion"), K("Resources"),
                                      K("Description")}

C8_Witness ==
    /\ call.op = "Stack.export"
    /\ Len(Val(stacks[call.stack]).resources) >= 2
    /\ ~IsNone(Val(stacks[call.stack]).description)

-----------------------------------------------------------------------------
(* Claims about Instance.add *)

IsAddInterface(c) == c.op = "Instance.add" /\ c.element = "NetworkInterface"

\* C5: attaching an interface that has no device index gives it the index
\* max(keys \cup {0}) + 1: it succeeds, the index is at least 1 and above
\* every index present, one less is 0 or an index present, the interface
\* carries the index and is stored under it, no earlier entry is rebound, and
\* on a fresh instance the first two such attachments get 1 and 2.
C5_AutoIndex ==
    [][(IsAddInterface(call') /\ IsNone(nis[call'.ni].device_index)) =>
          LET old == heap[call'.obj].network_interfaces
              new == heap'[call'.obj].network_interfaces
              idx == Val(nis'[call'.ni].device_index)
          IN  /\ call'.status = Ok
              /\ ~IsNone(nis'[call'.ni].device_index)
              /\ idx >= 1
              /\ \A k \in DictKeys(old) : idx > k
              /\ idx - 1 \in DictKeys(old) \cup {0}
              /\ new = Append(old, <<idx, call'.ni>>)
              /\ (old = <<>> => idx = 1)
              /\ (DictKeySeq(old) = <<1>> => idx = 2)]_vars

\* An interface attached under an index no caller supplies: the index was
\* assigned by add, above an explicit one.
C5_Witness ==
    /\ IsAddInterface(call) /\ call.status = Ok
    /\ Len(heap[call.obj].network_interfaces) = 2
    /\ Val(nis[call.ni].device_index) = MaxIndex + 1
    /\ DictGet(heap[call.obj].network_interfaces, MaxIndex + 1) = call.ni

\* C6: attaching an interface that has a device index fails when the index
\* is a key of network_interfaces, leaving the interfaces, the block devices
\* and the interface as they were; otherwise it succeeds and stores the
\* interface under exactly that index.
C6_ExplicitIndex ==
    [][(IsAddInterface(call') /\ ~IsNone(nis[call'.ni].device_index)) =>
          LET old == heap[call'.obj].network_interfaces
              new == heap'[call'.obj].network_interfaces
              idx == Val(nis[call'.ni].device_index)
          IN  IF HasKey(old, idx)
              THEN /\ call'.status = AssertionError
                   /\ new = old
                   /\ heap'[call'.obj].block_devices = heap[call'.obj].block_devices
                   /\ nis' = nis
              ELSE /\ call'.status = Ok
                   /\ new = Append(old, <<idx, call'.ni>>)
                   /\ nis'[call'.ni].device_index = Some(idx)]_vars

\* A failed attachment of an interface whose index add assigned earlier
C6_Witness ==
    /\ IsAddInterface(call) /\ call.status = AssertionError
    /\ Val(nis[call.ni].device_index) = MaxIndex + 1
    /\ HasKey(heap[call.obj].network_interfaces, MaxIndex + 1)
    /\ heap[call.obj].block_devices # <<>>

-----------------------------------------------------------------------------
(* Claims about rendering *)

IsRender(c) == c.op \in {"Stack.export", "Stack.body"}

\* C9: Stack.export and Stack.body change neither the stacks (resources,
\* name, description) nor any resource or network interface, and rendering
\* the same stack again right away returns the same output.
C9_RenderReadOnly ==
    [][IsRender(call') =>
          /\ stacks' = stacks
          /\ heap' = heap
          /\ nis' = nis
          /\ (call.op = call'.op /\ call.stack = call'.stack) =>
                (doc' = doc /\ body' = body)]_vars

\* A rendered stack that holds an instance with an attached interface
C9_Witness ==
    /\ call.op = "Stack.body"
    /\ ~IsNone(body)
    /\ \E i \in DOMAIN Val(stacks[call.stack]).resources :
          LET r == heap[Val(stacks[call.stack]).resources[i][2]] IN
             /\ r.cls = "Instance"
             /\ Len(r.network_interfaces) = 2
             /\ ~IsNone(r.instance_profile)

-----------------------------------------------------------------------------
(* Claims about Resource.export and Resource.getatt *)

\* C7: the export of a resource has Type, the backend type string of its
\* kind, and Properties, its current properties; it has DependsOn exactly
\* when depends is set, and DependsOn is then depends (for a Route the name
\* of its gateway attachment); it has no other key.
C7_ResourceExport ==
    call.op = "Resource.export" =>
        LET self == heap[call.obj]
            d == Val(doc).v
        IN  /\ HasKey(d, K("Type"))
            /\ DictGet(d, K("Type")) = VStr(<<AWSType[self.kind]>>)
            /\ HasKey(d, K("Properties"))
            /\ DictGet(d, K("Properties")) = VMap(properties(heap, nis, self))
            /\ HasKey(d, K("DependsOn")) <=> ~IsNone(self.depends)
            /\ ~IsNone(self.depends) =>
                  DictGet(d, K("DependsOn")) = VStr(Val(self.depends))
            /\ self.cls = "Route" =>
                  /\ HasKey(d, K("DependsOn"))
                  /\ DictGet(d, K("DependsOn")) = VStr(heap[self.gateway_attach].name)
            /\ DictKeys(d) \subseteq {K("Type"), K("Properties"), K("DependsOn")}

\* The export of a route that depends on its gateway attachment
C7_Witness ==
    /\ call.op = "Resource.export"
    /\ heap[call.obj].cls = "Route"
    /\ heap[heap[call.obj].gateway_attach].cls = "VPCGatewayAttachment"
    /\ DictGet(Val(doc).v, K("DependsOn")) = VStr(<<"r", "4">>)

HandsOutGetAtt(c) ==
    c.op \in {"Resource.getatt", "Instance.public_ip", "VPC.cidrblock"} /\ c.status = Ok

\* C10: getatt(a) succeeds exactly when a is one of the ATTRIBUTES of the
\* resource's class; it then returns GetAtt(own name, a), whose dump is the
\* scalar name.a tagged !GetAtt, and otherwise fails at the call, returning
\* nothing.  Every attribute reference a resource hands out (getatt,
\* Instance.public_ip, VPC.cidrblock) carries the resource's name and one of
\* its class's ATTRIBUTES.
C10_GetAtt ==
    /\ call.op = "Resource.getatt" =>
          LET self == heap[call.obj] IN
             /\ call.status = Ok <=> InTuple(call.attr, ATTRIBUTES(self.cls))
             /\ call.status = Ok =>
                   doc = Some(VIntrinsic(GetAtt(self.name, call.attr)))
             /\ call.status # Ok => (call.status = AssertionError /\ IsNone(doc))
    /\ (call.op = "yaml.dump" /\ call.of = "Resource.getatt") =>
          body = Some(<<"!GetAtt">> \o heap[call.obj].name \o <<".", call.attr>>)
    /\ HandsOutGetAtt(call) =>
          /\ Val(doc).v.tag = "GetAtt"
          /\ Val(doc).v.name = heap[call.obj].name
          /\ InTuple(Val(doc).v.attribute, ATTRIBUTES(heap[call.obj].cls))

\* The dump of instance.getatt('PublicIp')
C10_Witness ==
    /\ call.op = "yaml.dump" /\ call.of = "Resource.getatt"
    /\ heap[call.obj].cls = "Instance"
    /\ body = Some(<<"!GetAtt", "r", "2", ".", "PublicIp">>)

-----------------------------------------------------------------------------
(* Naming stacks: the caller constructs stacks under names of every shape,   *)
(* short ones over a small alphabet and ones around the length limit.       *)

MaxNameLen == 2

NameChars == { "a", "1", Hyphen, Newline, "é" }
ShortNames == UNION { [1..n -> NameChars] : n \in 0..MaxNameLen }
Repeat(c, n) == [i \in 1..n |-> c]
NameEnds == { <<>>, <<"a">>, <<Hyphen>>, <<Newline>>, <<"a", "a">>, <<"a", Newline>> }
LongNames == { Repeat("a", VALID_STACK_NAME_MAX_LEN - 1) \o e : e \in NameEnds }
NamedStacks == ShortNames \cup LongNames

NextName ==
    \E sid \in StackIds, name \in NamedStacks, d \in Descriptions :
        Stack_init(sid, name, d)

SpecName == Init /\ [][NextName]_vars

-----------------------------------------------------------------------------
(* Claims about stack names *)

\* The pattern ^[A-Za-z][A-Za-z0-9-]*$ read as the set of names it
\* describes: non-empty, a letter first, then letters, digits and hyphens only
MatchesStackPattern(s) ==
    /\ Len(s) > 0
    /\ s[1] \in AsciiLetters
    /\ \A i \in 2..Len(s) : s[i] \in AsciiLetters \cup AsciiDigits \cup {Hyphen}

\* C11: constructing a stack succeeds exactly for the names that match
\* ^[A-Za-z][A-Za-z0-9-]*$ and are at most 128 characters long; every other
\* name (empty, leading digit or hyphen, a character outside letters, digits
\* and hyphen such as a trailing newline, 129 characters) is rejected.
C11_StackNameValidation ==
    call.op = "Stack.__init__" =>
        ( call.status = Ok <=>
            /\ MatchesStackPattern(call.name)
            /\ Len(call.name) <= 128 )

-----------------------------------------------------------------------------
(* Constructing resources of every class: the caller constructs resources   *)
(* of the nine classes in any order, handing each constructor objects it    *)
(* has constructed before.                                                  *)

MaxObjects == 4

CatalogNames == { <<"r", "1">>, <<"r", "-">> }
RepositoryNames == { <<"r", "1">>, <<"r", "-", "1">>, <<"é", "1">>, <<Hyphen>> }

CanConstruct == Len(heap) < MaxObjects

NextCatalog ==
    \/ /\ CanConstruct
       /\ \E name \in CatalogNames, c \in CidrBlocks : VPC_init(name, c)
    \/ /\ CanConstruct
       /\ \E name \in CatalogNames, vpc \in DOMAIN heap, c \in CidrBlocks :
             Subnet_init(name, vpc, c)
    \/ /\ CanConstruct
       /\ \E name \in CatalogNames : InternetGateway_init(name)
    \/ /\ CanConstruct
       /\ \E name \in CatalogNames, vpc \in DOMAIN heap, gateway \in DOMAIN heap :
             VPCGatewayAttachment_init(name, vpc, gateway)
    \/ /\ CanConstruct
       /\ \E name \in CatalogNames, vpc \in DOMAIN heap, tags \in TagSets :
             RouteTable_init(name, vpc, tags)
    \/ /\ CanConstruct
       /\ \E name \in CatalogNames, route_table \in DOMAIN heap,
             gateway \in DOMAIN heap, gateway_attach \in DOMAIN heap :
             Route_init(name, route_table, "0.0.0.0/0", gateway, gateway_attach)
    \/ /\ CanConstruct
       /\ \E name \in CatalogNames, subnet \in DOMAIN heap,
             route_table \in DOMAIN heap :
             SubnetRouteTableAssociation_init(name, subnet, route_table)
    \/ /\ CanConstruct
       /\ \E name \in CatalogNames, image \in Images, disk_size \in DiskSizes :
             Instance_init(name, image, "t2.micro", disk_size)
    \/ /\ CanConstruct
       /\ \E name \in RepositoryNames, d \in Descriptions : Repository_init(name, d)

SpecCatalog == Init /\ [][NextCatalog]_vars

-----------------------------------------------------------------------------
(* Claims about the kinds of the resource classes *)

ConstructorOps ==
    { "Instance.__init__", "VPC.__init__", "Subnet.__init__",
      "InternetGateway.__init__", "VPCGatewayAttachment.__init__",
      "RouteTable.__init__", "Route.__init__",
      "SubnetRouteTableAssociation.__init__", "Repository.__init__" }

HasAsciiAlnum(s) == \E i \in 1..Len(s) : s[i] \in AsciiLetters \cup AsciiDigits

\* C12: every concrete resource class is bound to exactly one kind, a member
\* of AWSType, so no constructor fails on its kind; a Repository built from a
\* name with at least one ASCII alphanumeric character is constructed, its
\* resource name is the input without its non-alphanumeric characters, and
\* its RepositoryName property is the input itself.
C12_KindInCatalog ==
    /\ \A o, p \in DOMAIN heap :
          /\ heap[o].kind \in AWSTypeMembers
          /\ heap[o].cls = heap[p].cls => heap[o].kind = heap[p].kind
    /\ call.op \in ConstructorOps => call.status # AttributeError
    /\ (call.op = "Repository.__init__" /\ HasAsciiAlnum(call.name)) =>
          /\ call.status = Ok
          /\ heap[call.obj].name =
                SelectSeq(call.name, LAMBDA c : c \in AsciiLetters \cup AsciiDigits)
          /\ DictGet(properties(heap, nis, heap[call.obj]), K("RepositoryName"))
                = VStr(call.name)

====
